---- MODULE Spec2Model ----
(***************************************************************************)
(* Model of the HUVTSP anomaly scoring engine                              *)
(* (Rayfield_Week 4 Deliverable/Day 2/anomaly-detection-enhanced.py) and   *)
(* of the alert export pipeline                                            *)
(* (Rayfield_Week 4 Deliverable/Day 4/alert_export.py).                    *)
(*                                                                         *)
(* Number representation.  Energy readings are whole kWh.  Floating point  *)
(* quantities are fixed point integers, truncated:                         *)
(*   - batch statistics (mean, std, control limits): 1/StatScale kWh       *)
(*   - raw and normalised scores (isolation, z, SPC): 1/ScoreScale         *)
(*   - the combined anomaly_score: 1/(10*ScoreScale), so that the weighted *)
(*     sum 0.5/0.3/0.2 is exact                                            *)
(* NaN is a reserved value: arithmetic on it gives NaN, every comparison   *)
(* with it is false, as in IEEE 754.                                       *)
(* IsolationForest and StandardScaler are library objects: the scaler and  *)
(* the forest are modelled by the number of feature columns they were      *)
(* fitted on, and decision_function by any assignment of scores that gives *)
(* equal feature rows equal scores.                                        *)
(***************************************************************************)
EXTENDS Integers, Sequences, FiniteSets, TLC

\* ------------------------------------------------------------------ bounds
MaxLen == 4          \* longest enumerated reading batch

\* ------------------------------------------------------- number conventions
StatScale == 100
ScoreScale == 1000
NaN == -999999

Energy == {150, 500}
IsoScores == {-200, -100, 100}
SpikeLens == {7, 10, 11, 14}
T0 == 8
BadDate == -1

Max(a, b) == IF a >= b THEN a ELSE b
Min(a, b) == IF a <= b THEN a ELSE b
Abs(a) == IF a < 0 THEN -a ELSE a
IsNaN(x) == x = NaN

RECURSIVE ISqrtB(_, _, _)
ISqrtB(x, lo, hi) ==
    IF lo >= hi THEN lo
    ELSE LET mid == (lo + hi + 1) \div 2
         IN IF mid * mid <= x THEN ISqrtB(x, mid, hi) ELSE ISqrtB(x, lo, mid - 1)
\* floor of the square root
ISqrt(x) == ISqrtB(x, 0, 46340)

\* floor(a * m / d) without overflowing 32 bits
MulDiv(a, m, d) == (a \div d) * m + ((a % d) * m) \div d

\* the sequence with the elements of f, each computed once
AsSeq(f) == SubSeq(f, 1, Len(f))

RECURSIVE SumSeq(_)
SumSeq(s) == IF s = <<>> THEN 0 ELSE Head(s) + SumSeq(Tail(s))

SeqMin(s) == CHOOSE x \in {s[i] : i \in DOMAIN s} : \A i \in DOMAIN s : x <= s[i]
SeqMax(s) == CHOOSE x \in {s[i] : i \in DOMAIN s} : \A i \in DOMAIN s : x >= s[i]

\* ----------------------------------------------------------- reading batches
Column(data, c) == AsSeq([i \in DOMAIN data |-> data[i][c]])
Columns(data) == IF data = <<>> THEN {"energyOutput"} ELSE DOMAIN data[1]
EnergyOf(data) == AsSeq([i \in DOMAIN data |-> data[i].energyOutput])

\* pandas Series.mean(), in 1/StatScale
SeriesMean(v) == (SumSeq(v) * StatScale) \div Len(v)
\* n * sum(x^2) - sum(x)^2 = n^2 * population variance
SumSqDev(v) == Len(v) * SumSeq([i \in DOMAIN v |-> v[i] * v[i]]) - SumSeq(v) * SumSeq(v)
\* numpy std (ddof = 0), in 1/StatScale
StdPop(v) == ISqrt(MulDiv(SumSqDev(v), StatScale * StatScale, Len(v) * Len(v)))
\* pandas Series.std() (ddof = 1), in 1/StatScale; NaN for fewer than two values
SeriesStd(v) ==
    IF Len(v) < 2 THEN NaN
    ELSE ISqrt(MulDiv(SumSqDev(v), StatScale * StatScale, Len(v) * (Len(v) - 1)))

\* ------------------------------------------------------- feature extraction
\* the trailing window of rolling(window=3, min_periods=1) at position i
Window(v, i) == SubSeq(v, Max(1, i - 2), i)
RollingMean(v, i) == SeriesMean(Window(v, i))
\* rolling(...).std().fillna(0)
RollingStd(v, i) == IF IsNaN(SeriesStd(Window(v, i))) THEN 0 ELSE SeriesStd(Window(v, i))

\* pd.to_datetime(data['date']) raises when a value cannot be parsed
DatesParse(data) == \A i \in DOMAIN data : data[i].date # BadDate
HasCalendar(data) == "date" \in Columns(data) /\ DatesParse(data)
HourOfDay(ts) == ts % 24
DayOfWeek(ts) == (ts \div 24) % 7

\* one row of the feature matrix
FeatureRow(data, i) ==
    LET v == EnergyOf(data)
    IN <<v[i]>>
       \o (IF Len(data) >= 7 THEN <<RollingMean(v, i), RollingStd(v, i)>> ELSE <<>>)
       \o (IF HasCalendar(data)
           THEN <<HourOfDay(data[i].date), DayOfWeek(data[i].date)>> ELSE <<>>)
       \o (IF Len(data) > 1 THEN <<IF i = 1 THEN 0 ELSE v[i] - v[i - 1]>> ELSE <<>>)

\* the number of feature columns np.column_stack produces
FeatureWidth(data) ==
    1 + (IF Len(data) >= 7 THEN 2 ELSE 0) + (IF HasCalendar(data) THEN 2 ELSE 0)
      + (IF Len(data) > 1 THEN 1 ELSE 0)

_extract_features(data) == AsSeq([i \in DOMAIN data |-> FeatureRow(data, i)])

\* ------------------------------------------------------- statistical scorers
\* np.abs(stats.zscore(x)): |x - mean| / std with ddof = 0; 0/0 is NaN
ZScores(v) ==
    LET m == SeriesMean(v)
        s == StdPop(v)
    IN AsSeq([i \in DOMAIN v |->
          IF s = 0 THEN NaN ELSE (Abs(v[i] * StatScale - m) * ScoreScale) \div s])

\* mutant: control limits at two standard deviations
_spc_analysis_twoSigma(v) ==
    LET mean_val == SeriesMean(v)
        std_val == SeriesStd(v)
        ucl == mean_val + 2 * std_val
        lcl == mean_val - 2 * std_val
    IN AsSeq([i \in DOMAIN v |->
          IF IsNaN(std_val) \/ std_val = 0 THEN NaN
          ELSE (Max(0, v[i] * StatScale - ucl) * ScoreScale) \div std_val
               + (Max(0, lcl - v[i] * StatScale) * ScoreScale) \div std_val])

_spc_analysis(v) ==
    LET mean_val == SeriesMean(v)
        std_val == SeriesStd(v)
        ucl == mean_val + 3 * std_val
        lcl == mean_val - 3 * std_val
    IN AsSeq([i \in DOMAIN v |->
          IF IsNaN(std_val) \/ std_val = 0 THEN NaN
          ELSE (Max(0, v[i] * StatScale - ucl) * ScoreScale) \div std_val
               + (Max(0, lcl - v[i] * StatScale) * ScoreScale) \div std_val])

\* ------------------------------------------------------------ score combiner
\* np.clip(x, 0, 1)
ClipUnit(x) == IF IsNaN(x) THEN NaN ELSE Min(Max(x, 0), ScoreScale)

\* mutant: the quotient without the inversion
IsoNormalized_notInverted(s, lo, hi) ==
    IF hi = lo THEN 0 ELSE ((s - lo) * ScoreScale) \div (hi - lo)

\* (s - min) / (max - min + 1e-8), inverted; the epsilon is below the model's
\* resolution and decides only the zero range case, where the quotient is 0
IsoNormalized(s, lo, hi) ==
    ScoreScale - (IF hi = lo THEN 0 ELSE ((s - lo) * ScoreScale) \div (hi - lo))

\* mutant: z / 4 without the clip
ZNormalized_noclip(z) == IF IsNaN(z) THEN NaN ELSE z \div 4
ZNormalized(z) == IF IsNaN(z) THEN NaN ELSE ClipUnit(z \div 4)
SpcNormalized(spc) == IF IsNaN(spc) THEN NaN ELSE ClipUnit(spc \div 3)

Weights == <<5, 3, 2>>

\* the combined score of reading i, in 1/(10*ScoreScale)
Combine(a, b, c) ==
    IF IsNaN(a) \/ IsNaN(b) \/ IsNaN(c) THEN NaN
    ELSE Weights[1] * a + Weights[2] * b + Weights[3] * c

_combine_scores(isolation_scores, z_scores, spc_scores) ==
    LET lo == SeqMin(isolation_scores)
        hi == SeqMax(isolation_scores)
    IN AsSeq([i \in DOMAIN isolation_scores |->
                Combine(IsoNormalized(isolation_scores[i], lo, hi),
                        ZNormalized(z_scores[i]), SpcNormalized(spc_scores[i]))])

\* --------------------------------------------------------------- severity
\* mutant: the critical threshold at 0.6
thresholds_lowered == [critical |-> 6000, warning |-> 5000, info |-> 3000]
\* self.thresholds, in 1/(10*ScoreScale)
thresholds == [critical |-> 8000, warning |-> 5000, info |-> 3000]

\* a >= b on floats: false when a is NaN
Ge(a, b) == ~IsNaN(a) /\ a >= b
Gt(a, b) == ~IsNaN(a) /\ a > b

\* mutant: a score equal to a threshold gets the lower level
SeverityOf_strict(score) ==
    IF Gt(score, thresholds.critical) THEN "Critical"
    ELSE IF Gt(score, thresholds.warning) THEN "Warning"
    ELSE IF Gt(score, thresholds.info) THEN "Info"
    ELSE "Normal"

SeverityOf(score) ==
    IF Ge(score, thresholds.critical) THEN "Critical"
    ELSE IF Ge(score, thresholds.warning) THEN "Warning"
    ELSE IF Ge(score, thresholds.info) THEN "Info"
    ELSE "Normal"

_classify_severity(scores) == AsSeq([i \in DOMAIN scores |-> SeverityOf(scores[i])])

\* ------------------------------------------------------------ recommendations
\* mutant: compared with the mean instead of half the mean
BelowHalfMean_mean(value, v) == Len(v) * value < SumSeq(v)
\* row['energyOutput'] < data['energyOutput'].mean() * 0.5, exactly
BelowHalfMean(value, v) == 2 * Len(v) * value < SumSeq(v)

RecommendationOf(severity, value, v) ==
    IF severity = "Critical"
    THEN IF BelowHalfMean(value, v)
         THEN "Immediate equipment inspection required"
         ELSE "Check for external factors affecting output"
    ELSE IF severity = "Warning" THEN "Monitor closely and schedule maintenance check"
    ELSE IF severity = "Info" THEN "Note for pattern analysis"
    ELSE "No action required"

_get_recommendations(data) ==
    LET v == EnergyOf(data)
    IN AsSeq([i \in DOMAIN data |->
                RecommendationOf(data[i].severity, data[i].energyOutput, v)])

\* ------------------------------------------------------------------- state
VARIABLES
    fitted,     \* EnhancedAnomalyDetector.fitted
    scaler,     \* feature columns self.scaler was fitted on (0: not fitted)
    forest,     \* feature columns self.isolation_forest was fitted on (0: not fitted)
    fitHistory, \* history of fit on this detector: "never" called, only "raised", "completed"
    ret,        \* the last call: its operation, its argument, what it returned or raised
    pcall,      \* a call of one of the detector's pure helpers: the helper, its arguments
    pout,       \* what that call returned
    pdone       \* whether it has returned

dvars == <<fitted, scaler, forest, fitHistory, ret>>

\* some fit call on this detector has completed
everFit == fitHistory = "completed"
pvars == <<pcall, pout, pdone>>

\* the exporter, its caller and the output directory
VARIABLES
    frame,      \* the caller's anomaly frame
    now,        \* the clock: the current day
    alertFiles, \* the alert files of the output directory, by path
    summaryFiles, \* the summary files of the output directory, by the alert file's path
    bx,         \* batch_export in progress: its position, its argument, its results
    eret        \* what the export call returned or raised

evars == <<frame, now, alertFiles, summaryFiles, bx, eret>>

\* calls that run at the same time on one detector
VARIABLES
    th,         \* each thread: its call, its position in it, what it has read, its result
    scalerBy,   \* the training batch self.scaler holds the parameters of (0: none)
    forestBy    \* the training batch self.isolation_forest was grown on (0: none)

tvars == <<th, scalerBy, forestBy>>

NoSummary == [total_data_points |-> 0, total_anomalies |-> 0,
              critical_anomalies |-> 0, warning_anomalies |-> 0, info_anomalies |-> 0,
              max_anomaly_score |-> 0, most_severe_date |-> BadDate]

Idle == [op |-> "none", outcome |-> "none", data |-> <<>>, result |-> <<>>,
         summary |-> NoSummary]

\* ------------------------------------------------------------ input batches
Spike(k) == AsSeq([i \in 1..k |-> IF i = k THEN 150 ELSE 500])
DateModes == {"none", "dated", "bad"}

MkBatch(vals, mode) ==
    AsSeq([i \in DOMAIN vals |->
             IF mode = "none" THEN [energyOutput |-> vals[i]]
             ELSE [energyOutput |-> vals[i],
                   date |-> IF mode = "bad" THEN BadDate ELSE T0 + i - 1]])

\* a batch with a reading equal to the batch's mean
MidBatch == MkBatch(<<150, 325, 500>>, "none")

Batches ==
    {MkBatch(vals, mode) : vals \in UNION {[1..n -> Energy] : n \in 0..MaxLen},
                           mode \in DateModes}
    \cup {MkBatch(Spike(k), "none") : k \in SpikeLens}
    \cup {MidBatch}

\* decision_function is a function of the (scaled) feature row: one score for
\* each distinct row of the batch
FeatureRows(data) ==
    LET features == _extract_features(data)
    IN {features[i] : i \in DOMAIN data}
\* the scores drawn for a batch: for MidBatch also the score whose quotient by
\* the range of -200..100 (epsilon included) is 0.4
IsoScoresOf(data) == IF data = MidBatch THEN IsoScores \cup {-80} ELSE IsoScores
IsoChoices(data) == [FeatureRows(data) -> IsoScoresOf(data)]
IsoOf(data, g) ==
    LET features == _extract_features(data)
    IN AsSeq([i \in DOMAIN data |-> g[features[i]]])

\* ------------------------------------------------------------ detect_anomalies
\* mutant: every reading with a score flagged
AnomalyFlag_any(score) == Ge(score, 0)
\* mutant: the flag taken against the warning threshold
AnomalyFlag_warning(score) == Gt(score, thresholds.warning)
\* combined_scores > self.thresholds['info']
AnomalyFlag(score) == Gt(score, thresholds.info)

\* the frame detect_anomalies returns for isolation scores iso
Scored(data, iso) ==
    LET v == EnergyOf(data)
        z_scores == ZScores(v)
        spc_scores == _spc_analysis(v)
        combined_scores == _combine_scores(iso, z_scores, spc_scores)
        severity == _classify_severity(combined_scores)
        partial == AsSeq([i \in DOMAIN data |->
                            [energyOutput |-> v[i], severity |-> severity[i]]])
        actions == _get_recommendations(partial)
    IN AsSeq([i \in DOMAIN data |->
          data[i] @@ [anomaly_score |-> combined_scores[i],
                      isolation_score |-> iso[i],
                      z_score |-> z_scores[i],
                      spc_score |-> spc_scores[i],
                      anomaly_flag |-> AnomalyFlag(combined_scores[i]),
                      severity |-> severity[i],
                      recommended_action |-> actions[i]]])

\* scaler.transform / decision_function raise on an empty batch, on a scaler
\* that is not fitted and on a feature matrix of another width
LibraryRejects(data, sc, fo) ==
    Len(data) = 0 \/ sc # FeatureWidth(data) \/ fo # FeatureWidth(data)

detect_anomalies(data) ==
    /\ ret.op = "none"
    /\ IF ~fitted
       THEN ret' = [Idle EXCEPT !.op = "detect", !.outcome = "NotFitted", !.data = data]
       ELSE IF LibraryRejects(data, scaler, forest)
       THEN ret' = [Idle EXCEPT !.op = "detect", !.outcome = "LibraryError", !.data = data]
       ELSE \E g \in IsoChoices(data) :
              ret' = [Idle EXCEPT !.op = "detect", !.outcome = "ok", !.data = data,
                                  !.result = Scored(data, IsoOf(data, g))]
    /\ UNCHANGED <<fitted, scaler, forest, fitHistory, pvars, evars, tvars>>

\* --------------------------------------------------------------------- fit
\* mutant: the fitted flag set before the models are fitted
fit_flagFirst(data) ==
    /\ ret.op = "none"
    /\ fitted' = TRUE
    /\ IF Len(data) = 0
       THEN /\ scaler' \in {scaler, 0}
            /\ fitHistory' = IF fitHistory = "never" THEN "raised" ELSE fitHistory
            /\ UNCHANGED forest
            /\ ret' = [Idle EXCEPT !.op = "fit", !.outcome = "LibraryError", !.data = data]
       ELSE /\ scaler' = FeatureWidth(data)
            /\ forest' = FeatureWidth(data)
            /\ fitHistory' = "completed"
            /\ ret' = [Idle EXCEPT !.op = "fit", !.outcome = "ok", !.data = data]
    /\ UNCHANGED <<pvars, evars, tvars>>

\* scaler.fit_transform raises on an empty feature matrix; whether the library
\* has already reset the scaler by then is its own business
fit(data) ==
    /\ ret.op = "none"
    /\ IF Len(data) = 0
       THEN /\ scaler' \in {scaler, 0}
            /\ fitHistory' = IF fitHistory = "never" THEN "raised" ELSE fitHistory
            /\ UNCHANGED <<fitted, forest>>
            /\ ret' = [Idle EXCEPT !.op = "fit", !.outcome = "LibraryError", !.data = data]
       ELSE /\ scaler' = FeatureWidth(data)
            /\ forest' = FeatureWidth(data)
            /\ fitted' = TRUE
            /\ fitHistory' = "completed"
            /\ ret' = [Idle EXCEPT !.op = "fit", !.outcome = "ok", !.data = data]
    /\ UNCHANGED <<pvars, evars, tvars>>

\* ------------------------------------------------------- get_anomaly_summary
Flagged(results) == SelectSeq(results, LAMBDA r : r.anomaly_flag)
CountSeverity(rows, s) == Len(SelectSeq(rows, LAMBDA r : r.severity = s))
\* anomalies['anomaly_score'].idxmax(): the first row with the largest score
IdxMax(rows) ==
    CHOOSE i \in DOMAIN rows :
        /\ \A j \in DOMAIN rows : rows[j].anomaly_score <= rows[i].anomaly_score
        /\ \A j \in 1..(i - 1) : rows[j].anomaly_score < rows[i].anomaly_score

\* anomalies.loc[..., 'date'] raises KeyError when the frame has no date column
SummaryRaises(results) ==
    Flagged(results) # <<>> /\ "date" \notin DOMAIN Flagged(results)[1]

get_anomaly_summary(results) ==
    LET anomalies == Flagged(results)
    IN [total_data_points |-> Len(results),
        total_anomalies |-> Len(anomalies),
        critical_anomalies |-> CountSeverity(anomalies, "Critical"),
        warning_anomalies |-> CountSeverity(anomalies, "Warning"),
        info_anomalies |-> CountSeverity(anomalies, "Info"),
        max_anomaly_score |->
            IF anomalies # <<>> THEN anomalies[IdxMax(anomalies)].anomaly_score ELSE 0,
        most_severe_date |->
            IF anomalies # <<>> THEN anomalies[IdxMax(anomalies)].date ELSE BadDate]

\* -------------------------------------------------------- process_energy_data
\* a detector of its own: fit(data), detect_anomalies(data), get_anomaly_summary
process_energy_data(data) ==
    /\ ret.op = "none"
    /\ IF Len(data) = 0
       THEN ret' = [Idle EXCEPT !.op = "process", !.outcome = "LibraryError", !.data = data]
       ELSE \E g \in IsoChoices(data) :
              LET results == Scored(data, IsoOf(data, g))
              IN IF SummaryRaises(results)
                 THEN ret' = [Idle EXCEPT !.op = "process", !.outcome = "KeyError",
                                          !.data = data]
                 ELSE ret' = [Idle EXCEPT !.op = "process", !.outcome = "ok",
                                          !.data = data, !.result = results,
                                          !.summary = get_anomaly_summary(results)]
    /\ UNCHANGED <<fitted, scaler, forest, fitHistory, pvars, evars, tvars>>

\* the caller takes what the call returned or raised
Return ==
    /\ ret.op # "none"
    /\ ret' = Idle
    /\ UNCHANGED <<fitted, scaler, forest, fitHistory, pvars, evars, tvars>>

\* ============================================================ alert export
\* Dates are whole days and timestamps whole hours (day * 24 + hour); a file
\* path is a function of the export date alone, so files are keyed by the day.
MaxRows == 2         \* most rows of an enumerated anomaly frame
MaxDays == 3         \* largest date_range_days of a batch_export call

Today == 10

\* mutant: the empty frame's own columns written in place of the header list
HEADERS_ofEmptyFrame == <<>>

\* headers, the columns of the file written for a day without alerts
HEADERS == <<"alert_id", "timestamp", "energy_kwh", "severity", "anomaly_score",
             "deviation_percentage", "expected_min", "expected_max", "system_status",
             "recommended_action", "units_affected", "trend_direction", "created_at">>

\* the keys of export_columns, in the order of the dict
EXPORT_COLUMNS == <<"alert_id", "timestamp", "energy_kwh", "severity", "anomaly_score",
                    "deviation_percentage", "expected_min", "expected_max",
                    "system_status", "recommended_action", "units_affected",
                    "trend_direction", "created_at">>

DayOf(ts) == ts \div 24

\* ------------------------------------------------- filter_anomalies_by_date
\* the caller's frame: whether it has a date column, whether that column
\* holds datetimes already ("datetime") or what the caller put there ("raw")
FrameDatesParse(fr) == \A i \in DOMAIN fr.rows : fr.rows[i].date # BadDate

\* pd.to_datetime raises on a date that cannot be parsed
FilterRaises(fr) == fr.hasDate /\ ~FrameDatesParse(fr)

\* data['date'] = pd.to_datetime(data['date']): the caller's frame itself
FrameAfterFilter(fr) ==
    IF fr.hasDate /\ FrameDatesParse(fr) THEN [fr EXCEPT !.dateRepr = "datetime"] ELSE fr

filter_anomalies_by_date(fr, target_date) ==
    IF fr.hasDate
    THEN SelectSeq(fr.rows, LAMBDA r : DayOf(r.date) = target_date)
    ELSE <<>>

\* ------------------------------------------------------- format_alert_data
\* numpy round(x, 2) of |e - mean| / mean * 100, in hundredths of a percent
\* (half to even); NaN when the mean is 0
RoundDiv(a, b) ==
    LET q == a \div b
        r == a % b
    IN IF 2 * r > b \/ (2 * r = b /\ q % 2 = 1) THEN q + 1 ELSE q

\* mutant: the mean of the whole frame instead of the day's mean
DeviationPct_global(v, i, all) ==
    IF SumSeq(all) = 0 THEN NaN
    ELSE RoundDiv(Abs(Len(all) * v[i] - SumSeq(all)) * 10000, SumSeq(all))

DeviationPct(v, i, all) ==
    IF SumSeq(v) = 0 THEN NaN
    ELSE RoundDiv(Abs(Len(v) * v[i] - SumSeq(v)) * 10000, SumSeq(v))

\* max(0, mean - 2 * std): Python's max keeps 0 when the other operand is NaN
ExpectedMin(v) ==
    IF IsNaN(SeriesStd(v)) THEN 0 ELSE Max(0, SeriesMean(v) - 2 * SeriesStd(v))
ExpectedMax(v) ==
    IF IsNaN(SeriesStd(v)) THEN NaN ELSE SeriesMean(v) + 2 * SeriesStd(v)

SystemStatus(severity) ==
    IF severity = "Critical" THEN "Requires Immediate Attention"
    ELSE IF severity = "Warning" THEN "Monitoring Required"
    ELSE IF severity = "Info" THEN "Normal Operation"
    ELSE IF severity = "Normal" THEN "Operating Normally"
    ELSE "Under Review"

\* mutant: strictly decreasing
IsMonotonicDecreasing_strict(v) == \A i \in 1..(Len(v) - 1) : v[i] > v[i + 1]

\* Series.is_monotonic_decreasing: never increasing
IsMonotonicDecreasing(v) == \A i \in 1..(Len(v) - 1) : v[i] >= v[i + 1]

TrendDirection(v) ==
    IF Len(v) > 1
    THEN IF IsMonotonicDecreasing(v) THEN "Declining" ELSE "Variable"
    ELSE "Single Point"

\* mutant: the ids count on from the rows of the frame before the day's rows
AlertId_running(i, anomaly_data, all) ==
    i + Len(SelectSeq(all, LAMBDA r : r.date < anomaly_data[1].date))

\* range(1, len(anomaly_data) + 1)
AlertId(i, anomaly_data, all) == i

\* anomaly_data: the day's rows; all: the rows of the whole frame; created_at: the clock
format_alert_data(anomaly_data, all, created_at) ==
    IF anomaly_data = <<>>
    THEN [columns |-> <<>>, rows |-> <<>>]
    ELSE LET v == EnergyOf(anomaly_data)
             expected_min == ExpectedMin(v)
             expected_max == ExpectedMax(v)
             trend == TrendDirection(v)
         IN [columns |-> EXPORT_COLUMNS,
             rows |-> AsSeq([i \in DOMAIN anomaly_data |->
                 [alert_id |-> AlertId(i, anomaly_data, all),
                  timestamp |-> anomaly_data[i].date,
                  energy_kwh |-> v[i],
                  severity |-> anomaly_data[i].severity,
                  anomaly_score |-> anomaly_data[i].anomaly_score,
                  deviation_percentage |-> DeviationPct(v, i, EnergyOf(all)),
                  expected_min |-> expected_min,
                  expected_max |-> expected_max,
                  system_status |-> SystemStatus(anomaly_data[i].severity),
                  recommended_action |-> anomaly_data[i].recommended_action,
                  units_affected |-> "Primary System",
                  trend_direction |-> trend,
                  created_at |-> created_at]])]

\* -------------------------------------------------------- get_recommendations
\* (the two counts that the code prints inside its first and third text are left
\* out of the texts; they are the summary's critical_alerts and warning_alerts)
MaxOf(rows, c) == SeqMax(Column(rows, c))

\* mutant: two warnings are enough
ManyWarnings_two(warning_count) == warning_count >= 2

\* warning_count > 2
ManyWarnings(warning_count) == warning_count > 2

get_recommendations(alert_data) ==
    IF alert_data.rows = <<>>
    THEN <<"No immediate action required - no anomalies detected">>
    ELSE LET critical_count == CountSeverity(alert_data.rows, "Critical")
             warning_count == CountSeverity(alert_data.rows, "Warning")
             recs == (IF critical_count > 0
                      THEN <<"Immediate attention required: critical anomalies detected",
                             "Contact on-call engineer for immediate investigation">>
                      ELSE <<>>)
                     \o (IF ManyWarnings(warning_count)
                         THEN <<"Monitor closely: warning-level anomalies detected",
                                "Schedule maintenance check within 24 hours">>
                         ELSE <<>>)
                     \o (IF Gt(MaxOf(alert_data.rows, "deviation_percentage"), 5000)
                         THEN <<"High deviation detected - investigate potential equipment issues">>
                         ELSE <<>>)
         IN IF Len(recs) = 0 THEN <<"Continue normal monitoring procedures">> ELSE recs

\* ----------------------------------------------------- generate_summary_stats
generate_summary_stats(alert_data, export_date, export_timestamp) ==
    IF alert_data.rows = <<>>
    THEN [export_date |-> export_date, total_alerts |-> 0, severity_breakdown |-> <<>>,
          avg_energy_output |-> 0, avg_deviation |-> 0, status |-> "No alerts",
          export_timestamp |-> export_timestamp]
    ELSE LET rows == alert_data.rows
             energy == Column(rows, "energy_kwh")
             deviation == Column(rows, "deviation_percentage")
         IN [export_date |-> export_date,
             total_alerts |-> Len(rows),
             severity_breakdown |->
                 [sev \in {rows[i].severity : i \in DOMAIN rows} |-> CountSeverity(rows, sev)],
             critical_alerts |-> CountSeverity(rows, "Critical"),
             warning_alerts |-> CountSeverity(rows, "Warning"),
             info_alerts |-> CountSeverity(rows, "Info"),
             avg_energy_output |-> SeriesMean(energy),
             min_energy_output |-> SeqMin(energy),
             max_energy_output |-> SeqMax(energy),
             avg_deviation |->
                 IF \E i \in DOMAIN deviation : IsNaN(deviation[i]) THEN NaN
                 ELSE SumSeq(deviation) \div Len(deviation),
             max_deviation |-> SeqMax(deviation),
             primary_trend |-> rows[1].trend_direction,
             systems_affected |-> 1,
             status |-> IF CountSeverity(rows, "Critical") > 0 THEN "Critical" ELSE "Normal",
             export_timestamp |-> export_timestamp,
             recommendations |-> get_recommendations(alert_data)]

\* ------------------------------------------------------- export_daily_alerts
Absent == [state |-> "absent"]
Partial == [state |-> "partial"]
Keep == [state |-> "keep"]
Written(content) == [state |-> "written", content |-> content]
NoPath == -1
Faults == {"none", "csv", "summary"}

\* What one export_daily_alerts call does: whether it raises, the caller's frame
\* afterwards, what it leaves in the day's alert file and summary file (Keep: not
\* touched), and what it returns.  fault: the write the file system fails, if any;
\* torn: whether the failed write left a partial file behind.
ExportOutcome(fr, export_date, fault, torn, clock) ==
    IF FilterRaises(fr)
    THEN [raised |-> TRUE, error |-> "Unknown datetime string format", frame |-> fr,
          alerts |-> Keep, summary |-> Keep, count |-> 0]
    ELSE LET daily_anomalies == filter_anomalies_by_date(fr, export_date)
             formatted_data == format_alert_data(daily_anomalies, fr.rows, clock)
             csv == IF formatted_data.rows # <<>> THEN formatted_data
                    ELSE [columns |-> HEADERS, rows |-> <<>>]
             summary_stats == generate_summary_stats(formatted_data, export_date, clock)
         IN IF fault = "csv"
            THEN [raised |-> TRUE, error |-> "OSError: alert file", frame |-> FrameAfterFilter(fr),
                  alerts |-> IF torn THEN Partial ELSE Keep, summary |-> Keep, count |-> 0]
            ELSE IF fault = "summary"
            THEN [raised |-> TRUE, error |-> "OSError: summary file",
                  frame |-> FrameAfterFilter(fr), alerts |-> Written(csv),
                  summary |-> IF torn THEN Partial ELSE Keep, count |-> 0]
            ELSE [raised |-> FALSE, error |-> "", frame |-> FrameAfterFilter(fr),
                  alerts |-> Written(csv), summary |-> Written(summary_stats),
                  count |-> Len(formatted_data.rows)]

ExportDays == (Today - MaxDays)..(Today + 1)

\* strftime('%Y-%m-%d'): year, month and day of the month of a day; day 8 is
\* 2024-02-29 and Today is 2024-03-02
StrfDate(day) == IF day <= 8 THEN <<2024, 2, 21 + day>> ELSE <<2024, 3, day - 8>>

\* mutant: the name keeps the year and the month only
ExportPath_month(export_date) ==
    StrfDate(export_date)[1] * 10000 + StrfDate(export_date)[2] * 100

\* alerts_YYYYMMDD.csv in the output directory, named by its eight digits; the
\* summary file is the same name with _summary.json for .csv
ExportPath(export_date) ==
    StrfDate(export_date)[1] * 10000 + StrfDate(export_date)[2] * 100
        + StrfDate(export_date)[3]
ExportPaths == {ExportPath(d) : d \in ExportDays}
NoBatch == [pc |-> "idle", date_range_days |-> 0, i |-> 0, results |-> <<>>, raised |-> <<>>,
            reference |-> 0]
NoExport == [op |-> "none"]

Put(files, day, w) == IF w = Keep THEN files ELSE [files EXCEPT ![day] = w]

\* export_daily_alerts(anomaly_data, export_date) called on its own
export_daily_alerts(export_date) ==
    /\ bx.pc = "idle" /\ eret.op = "none"
    /\ \E fault \in Faults, torn \in BOOLEAN :
          LET o == ExportOutcome(frame, export_date, fault, torn, now)
          IN /\ fault = "none" => ~torn
             /\ frame' = o.frame
             /\ alertFiles' = Put(alertFiles, ExportPath(export_date), o.alerts)
             /\ summaryFiles' = Put(summaryFiles, ExportPath(export_date), o.summary)
             /\ eret' = IF o.raised
                        THEN [op |-> "export", raised |-> TRUE, date |-> export_date,
                              error |-> o.error]
                        ELSE [op |-> "export", raised |-> FALSE, date |-> export_date,
                              export_path |-> ExportPath(export_date), alert_count |-> o.count,
                              summary_stats |-> o.summary.content]
    /\ UNCHANGED <<now, bx, dvars, pvars, tvars>>

\* ------------------------------------------------------------- batch_export
batch_export(date_range_days) ==
    /\ bx.pc = "idle" /\ eret.op = "none"
    /\ bx' = [pc |-> "loop", date_range_days |-> date_range_days, i |-> 0,
              results |-> <<>>, raised |-> <<>>, reference |-> now]
    /\ UNCHANGED <<frame, now, alertFiles, summaryFiles, eret, dvars, pvars, tvars>>

\* mutant: a failed day keeps the path of the file it was to write
BatchEntry_keepPath(export_date, o) ==
    IF o.raised
    THEN [date |-> export_date, file_path |-> ExportPath(export_date), alert_count |-> 0,
          status |-> "failed", error |-> o.error]
    ELSE [date |-> export_date, file_path |-> ExportPath(export_date),
          alert_count |-> o.count, status |-> "success"]

\* results.append(...): the try branch and the except branch
BatchEntry(export_date, o) ==
    IF o.raised
    THEN [date |-> export_date, file_path |-> NoPath, alert_count |-> 0,
          status |-> "failed", error |-> o.error]
    ELSE [date |-> export_date, file_path |-> ExportPath(export_date),
          alert_count |-> o.count, status |-> "success"]

\* one turn of the loop: the export of day now - i, caught when it raises;
\* bx.raised keeps, turn by turn, whether export_daily_alerts raised
batch_export_day ==
    /\ bx.pc = "loop" /\ bx.i < bx.date_range_days
    /\ \E fault \in Faults, torn \in BOOLEAN :
          LET export_date == now - bx.i
              o == ExportOutcome(frame, export_date, fault, torn, now)
          IN /\ fault = "none" => ~torn
             /\ frame' = o.frame
             /\ alertFiles' = Put(alertFiles, ExportPath(export_date), o.alerts)
             /\ summaryFiles' = Put(summaryFiles, ExportPath(export_date), o.summary)
             /\ bx' = [bx EXCEPT !.i = @ + 1,
                                 !.results = Append(@, BatchEntry(export_date, o)),
                                 !.raised = Append(@, o.raised)]
    /\ UNCHANGED <<now, eret, dvars, pvars, tvars>>

batch_export_return ==
    /\ bx.pc = "loop" /\ bx.i >= bx.date_range_days
    /\ eret' = [op |-> "batch", raised |-> FALSE, date_range_days |-> bx.date_range_days,
                results |-> bx.results, turns |-> bx.raised, reference |-> bx.reference]
    /\ bx' = NoBatch
    /\ UNCHANGED <<frame, now, alertFiles, summaryFiles, dvars, pvars, tvars>>

\* midnight passes while a batch runs (a batch is over long before the next one)
Tick ==
    /\ bx.pc = "loop" /\ now = Today
    /\ now' = now + 1
    /\ UNCHANGED <<frame, alertFiles, summaryFiles, bx, eret, dvars, pvars, tvars>>

\* ------------------------------------------------------------ anomaly frames
ExportKinds ==
    {[energyOutput |-> 100, severity |-> "Critical", anomaly_score |-> 9000,
      recommended_action |-> "Immediate equipment inspection required"],
     [energyOutput |-> 200, severity |-> "Warning", anomaly_score |-> 6000,
      recommended_action |-> "Monitor closely and schedule maintenance check"],
     [energyOutput |-> 300, severity |-> "Normal", anomaly_score |-> 1000,
      recommended_action |-> "No action required"]}

\* the first k rows fall on yesterday, the others on today, one an hour from 06:00
MkRows(kinds, k, bad) ==
    AsSeq([i \in DOMAIN kinds |->
        kinds[i] @@ [date |-> IF bad THEN BadDate
                              ELSE (IF i <= k THEN Today - 1 ELSE Today) * 24 + 5 + i]])

DatedFrames ==
    {[hasDate |-> TRUE, dateRepr |-> "raw", rows |-> MkRows(kinds, k, FALSE)] :
        kinds \in UNION {[1..n -> ExportKinds] : n \in 0..MaxRows}, k \in 0..MaxRows}
\* a frame without a date column, a frame whose dates cannot be parsed
OtherFrames ==
    {[hasDate |-> FALSE, dateRepr |-> "raw",
      rows |-> [i \in 1..Len(MkRows(kinds, 0, TRUE)) |->
                  [c \in DOMAIN kinds[i] |-> kinds[i][c]]]] :
        kinds \in [1..1 -> ExportKinds]}
    \cup {[hasDate |-> TRUE, dateRepr |-> "raw", rows |-> MkRows(kinds, 0, TRUE)] :
            kinds \in [1..1 -> ExportKinds]}
\* rows that only the example frames hold
ExtraKinds ==
    {[energyOutput |-> 400, severity |-> "Info", anomaly_score |-> 4000,
      recommended_action |-> "Note for pattern analysis"],
     [energyOutput |-> 500, severity |-> "Normal", anomaly_score |-> 1000,
      recommended_action |-> "No action required"]}

\* the day 100, 200, 300 after a day of one reading; a day of five after a day of
\* two; the day 500, 400, 300 after the day 500, 400, 500; a day of three warnings
\* after a day whose first reading lies more than 50 % under the day's mean
KindOf(e) == CHOOSE k \in ExportKinds \cup ExtraKinds : k.energyOutput = e
ExampleFrames ==
    {[hasDate |-> TRUE, dateRepr |-> "raw",
      rows |-> MkRows([i \in DOMAIN es |-> KindOf(es[i])], k, FALSE)] :
        <<es, k>> \in {<<(<<300, 100, 200, 300>>), 1>>,
                       <<(<<200, 300, 300, 200, 100, 100, 200>>), 2>>,
                       <<(<<500, 400, 500, 500, 400, 300>>), 3>>,
                       <<(<<200, 500, 500, 500, 200, 200, 200>>), 4>>}}
Frames == DatedFrames \cup OtherFrames \cup ExampleFrames

\* ------------------------------------------------------ the pure helpers
\* Arguments for _classify_severity, _combine_scores and _get_recommendations,
\* each called on its own.
MaxVec == 3          \* longest argument vector of a helper called on its own

ScoreGrid == {NaN, 0, 1000, 2999, 3000, 3001, 4000, 4999, 5000, 5001, 6000,
              7999, 8000, 8001, 9500, 10000}
SpecScores == <<9500, 8000, 6000, 5000, 4000, 3000, 1000>>
ZRaw == {NaN, 0, 1732, 5200}
SpcRaw == {0, 4500}
Severities == {"Critical", "Warning", "Info", "Normal", "Unknown"}

SeqsUpTo(S, n) == UNION {[1..k -> S] : k \in 1..n}

NoCall == [fn |-> "none"]

ClassifyCalls ==
    {[fn |-> "classify", scores |-> s] : s \in SeqsUpTo(ScoreGrid, 2) \cup {SpecScores}}
\* the raw scores of one reading: a value beyond the 3-sigma limits (SPC score
\* above 0) lies more than 3 deviations from the mean
CombineRaw == {t \in IsoScores \X ZRaw \X SpcRaw : t[3] > 0 => t[2] > 3000}

CombineCalls ==
    {[fn |-> "combine", iso |-> AsSeq([i \in DOMAIN t |-> t[i][1]]),
                        z |-> AsSeq([i \in DOMAIN t |-> t[i][2]]),
                        spc |-> AsSeq([i \in DOMAIN t |-> t[i][3]])] :
        t \in SeqsUpTo(CombineRaw, MaxVec)}
RecommendCalls ==
    {[fn |-> "recommend", data |-> d] :
        d \in SeqsUpTo([severity : Severities, energyOutput : Energy], MaxVec)}

ApplyClassify ==
    /\ pcall.fn = "classify" /\ ~pdone
    /\ pout' = _classify_severity(pcall.scores)
    /\ pdone' = TRUE
    /\ UNCHANGED <<pcall, dvars, evars, tvars>>

ApplyCombine ==
    /\ pcall.fn = "combine" /\ ~pdone
    /\ pout' = _combine_scores(pcall.iso, pcall.z, pcall.spc)
    /\ pdone' = TRUE
    /\ UNCHANGED <<pcall, dvars, evars, tvars>>

ApplyRecommend ==
    /\ pcall.fn = "recommend" /\ ~pdone
    /\ pout' = _get_recommendations(pcall.data)
    /\ pdone' = TRUE
    /\ UNCHANGED <<pcall, dvars, evars, tvars>>

\* --------------------------------------------------------- specifications
\* ============================================== calls that run concurrently
\* fit and detect_anomalies called by several threads on one detector.  A call
\* is taken apart at the statements that read or write the detector's fields;
\* each library call on the scaler or the forest is one step.  The isolation
\* scores of a batch are a function of the scaler's parameters, of the forest
\* and of the batch: a result names the training batches of the scaler and of
\* the forest that it was computed with.
NThreads == 2        \* threads that call the detector

Threads == 1..NThreads

\* the batches the threads pass, by number
TBatches == <<MkBatch(<<500, 150>>, "none"), MkBatch(<<500, 500, 150>>, "none"),
              MkBatch(<<500>>, "none")>>

Shared == [fitted |-> fitted, scaler |-> scaler, forest |-> forest,
           scalerBy |-> scalerBy, forestBy |-> forestBy]

TIdle == [op |-> "none", pc |-> "idle", data |-> 0, scaled |-> 0, outcome |-> "none",
          by |-> <<0, 0>>, start |-> 0, disturbed |-> FALSE, overlap |-> FALSE]

InFlight(u) == th[u].op = "detect" /\ th[u].pc # "done"

\* thread t moves to nt; a write to the detector by t is noted on every
\* detect_anomalies call in flight
Moves(t, nt, writes) ==
    th' = [u \in Threads |->
             IF u = t THEN nt
             ELSE IF writes /\ InFlight(u) THEN [th[u] EXCEPT !.disturbed = TRUE]
             ELSE th[u]]

\* thread t calls detect_anomalies(TBatches[k])
detect_call(t, k) ==
    /\ th[t].pc = "idle"
    /\ th' = [u \in Threads |->
                IF u = t
                THEN [TIdle EXCEPT !.op = "detect", !.pc = "check", !.data = k,
                                   !.start = Shared,
                                   !.overlap = \E v \in Threads \ {t} : InFlight(v)]
                ELSE IF InFlight(u) THEN [th[u] EXCEPT !.overlap = TRUE]
                ELSE th[u]]
    /\ UNCHANGED <<dvars, scalerBy, forestBy, pvars, evars>>

\* if not self.fitted: raise
detect_check(t) ==
    /\ th[t].op = "detect" /\ th[t].pc = "check"
    /\ IF fitted
       THEN Moves(t, [th[t] EXCEPT !.pc = "transform"], FALSE)
       ELSE Moves(t, [th[t] EXCEPT !.pc = "done", !.outcome = "NotFitted"], FALSE)
    /\ UNCHANGED <<dvars, scalerBy, forestBy, pvars, evars>>

\* mutant: the scaler is fitted again on the batch to score
TransformLeaves_refit(by, k) == k

\* self.scaler.transform(features): the scaler's parameters afterwards
TransformLeaves(by, k) == by

\* features = self._extract_features(data); self.scaler.transform(features)
detect_transform(t) ==
    /\ th[t].op = "detect" /\ th[t].pc = "transform"
    /\ IF scaler # FeatureWidth(TBatches[th[t].data])
       THEN /\ Moves(t, [th[t] EXCEPT !.pc = "done", !.outcome = "LibraryError"], FALSE)
            /\ UNCHANGED scalerBy
       ELSE /\ Moves(t, [th[t] EXCEPT !.pc = "score", !.scaled = scalerBy], FALSE)
            /\ scalerBy' = TransformLeaves(scalerBy, th[t].data)
    /\ UNCHANGED <<dvars, forestBy, pvars, evars>>

\* self.isolation_forest.decision_function(scaled_features), and the rest of
\* detect_anomalies, which reads the batch and the thresholds only
detect_score(t) ==
    /\ th[t].op = "detect" /\ th[t].pc = "score"
    /\ IF forest # FeatureWidth(TBatches[th[t].data])
       THEN Moves(t, [th[t] EXCEPT !.pc = "done", !.outcome = "LibraryError"], FALSE)
       ELSE Moves(t, [th[t] EXCEPT !.pc = "done", !.outcome = "ok",
                                   !.by = <<th[t].scaled, forestBy>>], FALSE)
    /\ UNCHANGED <<dvars, scalerBy, forestBy, pvars, evars>>

\* thread t calls fit(TBatches[k])
fit_call(t, k) ==
    /\ th[t].pc = "idle"
    /\ Moves(t, [TIdle EXCEPT !.op = "fit", !.pc = "scale", !.data = k, !.start = Shared],
             FALSE)
    /\ UNCHANGED <<dvars, scalerBy, forestBy, pvars, evars>>

\* features = self._extract_features(data); self.scaler.fit_transform(features)
fit_scale(t) ==
    /\ th[t].op = "fit" /\ th[t].pc = "scale"
    /\ scaler' = FeatureWidth(TBatches[th[t].data])
    /\ scalerBy' = th[t].data
    /\ Moves(t, [th[t] EXCEPT !.pc = "forest"], TRUE)
    /\ UNCHANGED <<fitted, forest, fitHistory, ret, forestBy, pvars, evars>>

\* self.isolation_forest.fit(scaled_features)
fit_forest(t) ==
    /\ th[t].op = "fit" /\ th[t].pc = "forest"
    /\ forest' = FeatureWidth(TBatches[th[t].data])
    /\ forestBy' = th[t].data
    /\ Moves(t, [th[t] EXCEPT !.pc = "flag"], TRUE)
    /\ UNCHANGED <<fitted, scaler, fitHistory, ret, scalerBy, pvars, evars>>

\* self.fitted = True; return self
fit_flag(t) ==
    /\ th[t].op = "fit" /\ th[t].pc = "flag"
    /\ fitted' = TRUE
    /\ fitHistory' = "completed"
    /\ Moves(t, [th[t] EXCEPT !.pc = "done", !.outcome = "ok"], TRUE)
    /\ UNCHANGED <<scaler, forest, ret, scalerBy, forestBy, pvars, evars>>

\* what detect_anomalies(TBatches[k]) gives when it runs alone on the detector d
DetectAlone(d, k) ==
    IF ~d.fitted THEN [outcome |-> "NotFitted", by |-> <<0, 0>>]
    ELSE IF LibraryRejects(TBatches[k], d.scaler, d.forest)
    THEN [outcome |-> "LibraryError", by |-> <<0, 0>>]
    ELSE [outcome |-> "ok", by |-> <<d.scalerBy, d.forestBy>>]

ThreadsIdle ==
    /\ th = [t \in Threads |-> TIdle]
    /\ scalerBy = 0
    /\ forestBy = 0

vars == <<dvars, pvars, evars, tvars>>

DetectorInit ==
    /\ fitted = FALSE
    /\ scaler = 0
    /\ forest = 0
    /\ fitHistory = "never"
    /\ ret = Idle

PureIdle == pcall = NoCall /\ pout = <<>> /\ pdone = FALSE

ExportIdle(fr) ==
    /\ frame = fr
    /\ now = Today
    /\ alertFiles = [f \in ExportPaths |-> Absent]
    /\ summaryFiles = [f \in ExportPaths |-> Absent]
    /\ bx = NoBatch
    /\ eret = NoExport

NoFrame == [hasDate |-> FALSE, dateRepr |-> "raw", rows |-> <<>>]

Init ==
    /\ DetectorInit
    /\ PureIdle
    /\ ExportIdle(NoFrame)
    /\ ThreadsIdle

Next ==
    \/ ret.op = "none" /\ \E data \in Batches : fit(data)
    \/ ret.op = "none" /\ \E data \in Batches : detect_anomalies(data)
    \/ ret.op = "none" /\ \E data \in Batches : process_energy_data(data)
    \/ Return

\* the detector: fit, detect_anomalies and process_energy_data in any order
Spec == Init /\ [][Next]_vars

InitPure ==
    /\ DetectorInit
    /\ ExportIdle(NoFrame)
    /\ ThreadsIdle
    /\ pcall \in ClassifyCalls \cup CombineCalls \cup RecommendCalls
    /\ pout = <<>> /\ pdone = FALSE

NextPure == ApplyClassify \/ ApplyCombine \/ ApplyRecommend

\* the pure helpers, each applied to arguments drawn from bounded sets
SpecPure == InitPure /\ [][NextPure]_vars

InitExport ==
    /\ DetectorInit
    /\ PureIdle
    /\ ThreadsIdle
    /\ \E fr \in Frames : ExportIdle(fr)

NextExport ==
    \/ export_daily_alerts(now)
    \/ \E n \in 0..MaxDays : batch_export(n)
    \/ batch_export_day
    \/ batch_export_return
    \/ Tick

\* one call of the exporter, a single export or a batch, on one anomaly frame
\* and an empty output directory
SpecExport == InitExport /\ [][NextExport]_vars

\* a fresh detector, or one that fit(TBatches[k]) has been run on
InitThreads ==
    /\ ret = Idle
    /\ PureIdle
    /\ ExportIdle(NoFrame)
    /\ th = [t \in Threads |-> TIdle]
    /\ \E k \in 0..Len(TBatches) :
          /\ fitted = (k > 0)
          /\ fitHistory = IF k > 0 THEN "completed" ELSE "never"
          /\ scaler = IF k > 0 THEN FeatureWidth(TBatches[k]) ELSE 0
          /\ forest = scaler
          /\ scalerBy = k
          /\ forestBy = k

NextThreads ==
    \E t \in Threads :
        \/ \E k \in DOMAIN TBatches : detect_call(t, k)
        \/ detect_check(t)
        \/ detect_transform(t)
        \/ detect_score(t)
        \/ \E k \in DOMAIN TBatches : fit_call(t, k)
        \/ fit_scale(t)
        \/ fit_forest(t)
        \/ fit_flag(t)

\* one call of fit or detect_anomalies by each thread, in any interleaving
SpecThreads == InitThreads /\ [][NextThreads]_vars

\* ------------------------------------------------------------------ claims
ScoreColumns == {"isolation_score", "z_score", "spc_score", "anomaly_score",
                 "anomaly_flag", "severity", "recommended_action"}
Returned == ret.op \in {"detect", "process"} /\ ret.outcome = "ok"

\* C1: on a detector on which no fit call has completed, detect_anomalies
\* raises the not-fitted error and returns no scored row; once a fit call has
\* completed it never raises not-fitted, and on a batch the fitted scaler and
\* forest accept it returns one scored row for each reading.
C1_NotFittedUntilFit ==
    ret.op = "detect" =>
        /\ ~everFit => ret.outcome = "NotFitted" /\ ret.result = <<>>
        /\ everFit => ret.outcome # "NotFitted"
        /\ everFit /\ ~LibraryRejects(ret.data, scaler, forest) =>
              /\ ret.outcome = "ok"
              /\ Len(ret.result) = Len(ret.data)
              /\ \A i \in DOMAIN ret.result : "anomaly_score" \in DOMAIN ret.result[i]

\* detect_anomalies on a detector whose only fit call raised
C1_Witness ==
    /\ ret.op = "detect" /\ ret.outcome = "NotFitted"
    /\ fitHistory = "raised" /\ Len(ret.data) > 0

C2_Rank(sev) ==
    CASE sev = "Normal" -> 0 [] sev = "Info" -> 1 [] sev = "Warning" -> 2
      [] sev = "Critical" -> 3
C2_Level(s) ==
    IF s # NaN /\ s >= 8000 THEN "Critical"
    ELSE IF s # NaN /\ s >= 5000 THEN "Warning"
    ELSE IF s # NaN /\ s >= 3000 THEN "Info"
    ELSE "Normal"

\* C2: _classify_severity gives every score exactly one level, Critical from
\* 0.8, Warning from 0.5, Info from 0.3 (a score equal to a threshold gets the
\* higher level), else Normal; the level is monotonic in the score; and the
\* scores 0.95, 0.8, 0.6, 0.5, 0.4, 0.3, 0.1 get Critical, Critical, Warning,
\* Warning, Info, Info, Normal.
C2_SeverityThresholds ==
    pdone /\ pcall.fn = "classify" =>
        LET s == pcall.scores
        IN /\ Len(pout) = Len(s)
           /\ \A i \in DOMAIN s : pout[i] = C2_Level(s[i])
           /\ \A i, j \in DOMAIN s :
                 s[i] # NaN /\ s[j] # NaN /\ s[i] <= s[j]
                    => C2_Rank(pout[i]) <= C2_Rank(pout[j])
           /\ s = SpecScores =>
                 pout = <<"Critical", "Critical", "Warning", "Warning",
                          "Info", "Info", "Normal">>

C2_Witness ==
    /\ pdone /\ pcall.fn = "classify" /\ pcall.scores = SpecScores
    /\ pout[2] = "Critical" /\ pout[7] = "Normal"

C3_Finite(c) ==
    \A i \in DOMAIN c.iso : c.iso[i] # NaN /\ c.z[i] # NaN /\ c.spc[i] # NaN
C3_Iso(c, i) ==
    LET lo == SeqMin(c.iso)
        hi == SeqMax(c.iso)
    IN IF hi = lo THEN 1000 ELSE 1000 - ((c.iso[i] - lo) * 1000) \div (hi - lo)
C3_Z(c, i) == c.z[i] \div 4
C3_Spc(c, i) == c.spc[i] \div 3
C3_Clip(x) == IF x < 0 THEN 0 ELSE IF x > 1000 THEN 1000 ELSE x

\* C3: for finite raw scores the three normalised components (isolation
\* min-max rescaled and inverted, z/4 clipped, spc/3 clipped) lie in [0,1],
\* the combined score is 0.5*isolation + 0.3*z + 0.2*spc, and it lies in [0,1].
C3_CombinedInUnitInterval ==
    pdone /\ pcall.fn = "combine" /\ C3_Finite(pcall) =>
        /\ Len(pout) = Len(pcall.iso)
        /\ \A i \in DOMAIN pout :
              /\ C3_Iso(pcall, i) \in 0..1000
              /\ pout[i] = 5 * C3_Iso(pcall, i) + 3 * C3_Clip(C3_Z(pcall, i))
                           + 2 * C3_Clip(C3_Spc(pcall, i))
              /\ pout[i] \in 0..10000

\* a reading with the lowest isolation score, z above 4 and SPC above 3
C3_Witness ==
    /\ pdone /\ pcall.fn = "combine" /\ C3_Finite(pcall)
    /\ \E i \in DOMAIN pout :
          pcall.z[i] > 4000 /\ pcall.spc[i] > 3000 /\ pout[i] = 10000
    /\ \E i \in DOMAIN pout : pout[i] = 0

C4_Batch == ret.op \in {"detect", "process"} /\ EnergyOf(ret.data) = <<500, 500, 500, 150>>

\* C4 as stated: scoring 500, 500, 500, 150 flags the last reading with
\* severity Critical and a non-empty recommended_action.
C4_LastReadingCritical ==
    C4_Batch /\ ret.outcome = "ok" =>
        /\ ret.result[4].anomaly_flag
        /\ ret.result[4].severity = "Critical"
        /\ ret.result[4].recommended_action # ""

\* C4 amended: scoring 500, 500, 500, 150 never gives the last reading
\* severity Critical (its score is at most 0.5 + 0.3 * 0.433 = 0.6299); when
\* the last reading has the lowest isolation score of the batch it is flagged
\* with severity Warning and the action of a Warning.
C4_LastReadingWarning ==
    C4_Batch /\ ret.outcome = "ok" =>
        LET last == ret.result[4]
        IN /\ last.severity # "Critical"
           /\ last.anomaly_score <= 6299
           /\ (\A i \in 1..4 : last.isolation_score <= ret.result[i].isolation_score)
                 => /\ last.anomaly_flag
                    /\ last.severity = "Warning"
                    /\ last.recommended_action
                          = "Monitor closely and schedule maintenance check"

C4_Witness ==
    /\ C4_Batch /\ ret.outcome = "ok"
    /\ ret.result[4].isolation_score < ret.result[1].isolation_score
    /\ ret.result[4].severity = "Warning"

\* C8: detect_anomalies returns the rows of its argument, in order, each with
\* its original columns and values and with exactly the seven score columns
\* added, and anomaly_flag is true exactly when anomaly_score > 0.3.
C8_AugmentedBatch ==
    Returned =>
        /\ Len(ret.result) = Len(ret.data)
        /\ \A i \in DOMAIN ret.data :
              /\ DOMAIN ret.result[i] = DOMAIN ret.data[i] \cup ScoreColumns
              /\ \A c \in DOMAIN ret.data[i] : ret.result[i][c] = ret.data[i][c]
              /\ ret.result[i].anomaly_flag
                    <=> (ret.result[i].anomaly_score # NaN
                         /\ ret.result[i].anomaly_score > 3000)

\* a returned batch with a flagged Info reading and an unflagged reading
C8_Witness ==
    /\ ret.op = "detect" /\ ret.outcome = "ok" /\ "date" \in DOMAIN ret.data[1]
    /\ \E i \in DOMAIN ret.result :
          ret.result[i].anomaly_flag /\ ret.result[i].severity = "Info"
    /\ \E i \in DOMAIN ret.result : ~ret.result[i].anomaly_flag

C9_Action(sev, below) ==
    CASE sev = "Critical" /\ below -> "Immediate equipment inspection required"
      [] sev = "Critical" /\ ~below -> "Check for external factors affecting output"
      [] sev = "Warning" -> "Monitor closely and schedule maintenance check"
      [] sev = "Info" -> "Note for pattern analysis"
      [] sev = "Normal" -> "No action required"

\* C9: _get_recommendations gives every reading exactly one non-empty action,
\* decided by its severity and by whether its value is below half the batch
\* mean: the two Critical actions, the Warning, Info and Normal actions.
C9_RecommendationTable ==
    pdone /\ pcall.fn = "recommend" =>
        LET d == pcall.data
            total == SumSeq(EnergyOf(d))
        IN /\ Len(pout) = Len(d)
           /\ \A i \in DOMAIN d :
                 /\ pout[i] # ""
                 /\ d[i].severity \in {"Critical", "Warning", "Info", "Normal"}
                       => pout[i] = C9_Action(d[i].severity,
                                              2 * Len(d) * d[i].energyOutput < total)

\* a Critical reading below half the mean beside a Critical reading above it
C9_Witness ==
    /\ pdone /\ pcall.fn = "recommend"
    /\ \E i, j \in DOMAIN pout :
          /\ pcall.data[i].severity = "Critical" /\ pcall.data[j].severity = "Critical"
          /\ pout[i] = "Immediate equipment inspection required"
          /\ pout[j] = "Check for external factors affecting output"

\* ------------------------------------------------------------ export claims
\* the readings of the caller's frame that fall on day d, in the given order
DayReadings(d) ==
    IF frame.hasDate THEN SelectSeq(frame.rows, LAMBDA r : DayOf(r.date) = d) ELSE <<>>

WrittenDays == {d \in ExportDays : alertFiles[ExportPath(d)].state = "written"}
AlertRows(d) == alertFiles[ExportPath(d)].content.rows

\* the entries of a batch against the turns that raised
C5_Recorded(results, turns) ==
    /\ Len(results) = Len(turns)
    /\ \A j \in DOMAIN results :
          LET r == results[j]
          IN /\ r.date \in {Today - (j - 1), Today + 1 - (j - 1)}
             /\ turns[j] =>
                   /\ r.status = "failed"
                   /\ r.file_path = NoPath
                   /\ r.alert_count = 0
                   /\ r.error # ""
             /\ ~turns[j] =>
                   /\ r.status = "success"
                   /\ r.file_path = ExportPath(r.date)
                   /\ DOMAIN r = {"date", "file_path", "alert_count", "status"}

\* C5: batch_export(N) returns exactly N results, one per turn of the loop in
\* order, whichever turns raise: a turn whose export raised is recorded failed
\* with file_path None, alert_count 0 and the error message, every other turn
\* success, and the turns after a failing one still export (a turn recorded as
\* success has just written its alert file and its summary file).
C5_BatchResults ==
    /\ bx.pc = "loop" =>
          /\ Len(bx.results) = bx.i
          /\ bx.i <= bx.date_range_days
          /\ C5_Recorded(bx.results, bx.raised)
          /\ (bx.i > 0 /\ ~bx.raised[bx.i]) =>
                /\ alertFiles[bx.results[bx.i].file_path].state = "written"
                /\ summaryFiles[bx.results[bx.i].file_path].state = "written"
    /\ eret.op = "batch" =>
          /\ Len(eret.results) = eret.date_range_days
          /\ C5_Recorded(eret.results, eret.turns)

\* three days, the second failing
C5_Witness ==
    /\ eret.op = "batch"
    /\ eret.date_range_days = 3
    /\ eret.turns = <<FALSE, TRUE, FALSE>>
    /\ eret.results[1].status = "success"
    /\ eret.results[2].status = "failed"
    /\ eret.results[3].status = "success"

C6_Header ==
    <<"alert_id", "timestamp", "energy_kwh", "severity", "anomaly_score",
      "deviation_percentage", "expected_min", "expected_max", "system_status",
      "recommended_action", "units_affected", "trend_direction", "created_at">>

\* C6: the alert file exported for a day on which no reading falls has zero
\* rows and the fixed 13-column header, the same names in the same order as
\* the alert file of a non-empty day.
C6_EmptyDayHeader ==
    \A d \in WrittenDays :
        /\ alertFiles[ExportPath(d)].content.columns = C6_Header
        /\ DayReadings(d) = <<>> => AlertRows(d) = <<>>
        /\ \A i \in DOMAIN AlertRows(d) : DOMAIN AlertRows(d)[i] = {C6_Header[c] : c \in 1..13}

\* an empty day and a non-empty day exported by one batch
C6_Witness ==
    \E d, e \in WrittenDays :
        /\ DayReadings(d) = <<>> /\ AlertRows(d) = <<>>
        /\ DayReadings(e) # <<>> /\ AlertRows(e) # <<>>
        /\ alertFiles[ExportPath(d)].content.columns = alertFiles[ExportPath(e)].content.columns

\* C7: the alerts exported for a day with N >= 1 readings carry alert_id
\* 1, 2, ..., N in the order the readings are given, starting again at 1 for
\* each day whatever the other days of the batch produced.
C7_AlertIdsDense ==
    \A d \in WrittenDays :
        /\ Len(AlertRows(d)) = Len(DayReadings(d))
        /\ \A i \in DOMAIN AlertRows(d) :
              /\ AlertRows(d)[i].alert_id = i
              /\ AlertRows(d)[i].timestamp = DayReadings(d)[i].date
              /\ AlertRows(d)[i].energy_kwh = DayReadings(d)[i].energyOutput

\* a day of five alerts exported, then a day of two by the same batch
C7_Witness ==
    /\ eret.op = "batch"
    /\ {Today - 1, Today} \subseteq WrittenDays
    /\ Column(AlertRows(Today), "alert_id") = <<1, 2, 3, 4, 5>>
    /\ Column(AlertRows(Today - 1), "alert_id") = <<1, 2>>

\* dev (hundredths of a percent) is |e - mean| / mean * 100 rounded to two
\* places, for the mean of the values v: within half a hundredth of it
C10_IsRounded(dev, e, v) ==
    2 * Abs(dev * SumSeq(v) - Abs(Len(v) * e - SumSeq(v)) * 10000) <= SumSeq(v)

\* C10: each exported alert's deviation_percentage is |energy_kwh - dayMean| /
\* dayMean * 100 rounded to two places, dayMean being the mean energy of that
\* day's alerts only; the day 100, 200, 300 gives 50.0, 0.0, 50.0.
C10_DeviationOfDayMean ==
    \A d \in WrittenDays :
        /\ \A i \in DOMAIN AlertRows(d) :
              C10_IsRounded(AlertRows(d)[i].deviation_percentage,
                            AlertRows(d)[i].energy_kwh, EnergyOf(DayReadings(d)))
        /\ EnergyOf(DayReadings(d)) = <<100, 200, 300>> =>
              Column(AlertRows(d), "deviation_percentage") = <<5000, 0, 5000>>

\* the day 100, 200, 300 exported from a frame that holds another day as well
C10_Witness ==
    /\ Today \in WrittenDays
    /\ EnergyOf(DayReadings(Today)) = <<100, 200, 300>>
    /\ DayReadings(Today - 1) # <<>>
    /\ Column(AlertRows(Today), "deviation_percentage") = <<5000, 0, 5000>>

\* C11: a day with one alert has trend_direction Single Point; on a day with
\* two or more alerts every alert has Declining exactly when the day's energy
\* values, in the given order, never increase, and Variable otherwise;
\* 500, 400, 300 gives Declining and 500, 400, 500 gives Variable.
C11_TrendDirection ==
    \A d \in WrittenDays :
        LET v == EnergyOf(DayReadings(d))
            trend == Column(AlertRows(d), "trend_direction")
        IN /\ Len(trend) = Len(v)
           /\ Len(v) = 1 => trend = <<"Single Point">>
           /\ Len(v) >= 2 =>
                 \A i \in DOMAIN trend :
                     trend[i] = IF \A j, k \in DOMAIN v : j < k => v[j] >= v[k]
                                THEN "Declining" ELSE "Variable"
           /\ v = <<500, 400, 300>> => trend = <<"Declining", "Declining", "Declining">>
           /\ v = <<500, 400, 500>> => trend = <<"Variable", "Variable", "Variable">>

\* the two example days exported by one batch
C11_Witness ==
    /\ eret.op = "batch"
    /\ {Today - 1, Today} \subseteq WrittenDays
    /\ EnergyOf(DayReadings(Today)) = <<500, 400, 300>>
    /\ Column(AlertRows(Today), "trend_direction") = <<"Declining", "Declining", "Declining">>
    /\ EnergyOf(DayReadings(Today - 1)) = <<500, 400, 500>>
    /\ Column(AlertRows(Today - 1), "trend_direction") = <<"Variable", "Variable", "Variable">>

SummaryDays == {d \in ExportDays : summaryFiles[ExportPath(d)].state = "written"}
SummaryOf(d) == summaryFiles[ExportPath(d)].content

\* C12: the summary persisted for an export day has status Critical when at
\* least one alert of the day has severity Critical and Normal otherwise, a day
\* with no alerts included.
C12_SummaryStatus ==
    \A d \in SummaryDays :
        SummaryOf(d).status =
            IF \E i \in DOMAIN DayReadings(d) : DayReadings(d)[i].severity = "Critical"
            THEN "Critical" ELSE "Normal"

C13_OnCall == "Contact on-call engineer for immediate investigation"
C13_Maintenance == "Schedule maintenance check within 24 hours"
C13_Investigate == "High deviation detected - investigate potential equipment issues"
C13_Continue == "Continue normal monitoring procedures"
C13_Has(recs, text) == \E i \in DOMAIN recs : recs[i] = text

\* C13: for a non-empty day the summary's recommendations hold the on-call
\* escalation exactly when the day has a Critical alert, the 24-hour
\* maintenance text exactly when it has more than 2 Warning alerts, the
\* investigate text exactly when its largest deviation_percentage is above 50,
\* and the continue-monitoring text exactly when none of the three holds; the
\* list is never empty.
C13_SummaryRecommendations ==
    \A d \in SummaryDays :
        DayReadings(d) # <<>> =>
            LET day == DayReadings(d)
                recs == SummaryOf(d).recommendations
                critical == \E i \in DOMAIN day : day[i].severity = "Critical"
                warnings == Cardinality({i \in DOMAIN day : day[i].severity = "Warning"})
                deviating == \E i \in DOMAIN day :
                                DeviationPct(EnergyOf(day), i, EnergyOf(day)) > 5000
            IN /\ recs # <<>>
               /\ C13_Has(recs, C13_OnCall) <=> critical
               /\ C13_Has(recs, C13_Maintenance) <=> warnings > 2
               /\ C13_Has(recs, C13_Investigate) <=> deviating
               /\ C13_Has(recs, C13_Continue) <=> ~(critical \/ warnings > 2 \/ deviating)

\* a day of three warnings, a day with a deviation above 50 % and no other
\* condition, both summarised by one batch
C13_Witness ==
    /\ eret.op = "batch"
    /\ {Today - 1, Today} \subseteq SummaryDays
    /\ Column(DayReadings(Today), "severity") = <<"Warning", "Warning", "Warning">>
    /\ C13_Has(SummaryOf(Today).recommendations, C13_Maintenance)
    /\ ~C13_Has(SummaryOf(Today).recommendations, C13_Investigate)
    /\ SummaryOf(Today - 1).recommendations = <<C13_Investigate>>

\* a step of thread t inside detect_anomalies
C14_DetectStep(t) == th'[t].op = "detect" /\ th'[t].pc # th[t].pc

\* a detect_anomalies call of thread t that has returned and that no write of
\* a fit call has run across
C14_Undisturbed(t) == th[t].op = "detect" /\ th[t].pc = "done" /\ ~th[t].disturbed

\* C14: no step of detect_anomalies changes the fitted flag, the scaler's
\* parameters or the forest (the thresholds are never assigned after
\* __init__), and a detect_anomalies call that runs beside other
\* detect_anomalies calls, in any interleaving, returns what it returns when
\* it runs alone on the detector it was called on.
C14_ScoringReadOnly ==
    /\ [](\A t \in Threads :
            C14_Undisturbed(t) =>
                [outcome |-> th[t].outcome, by |-> th[t].by]
                    = DetectAlone(th[t].start, th[t].data))
    /\ [][\A t \in Threads :
            C14_DetectStep(t) =>
                UNCHANGED <<fitted, scaler, forest, scalerBy, forestBy>>]_vars

\* two detect_anomalies calls on different batches have run at the same time
\* on a fitted detector and both have returned scores
C14_Witness ==
    \E t, u \in Threads :
        /\ t # u
        /\ C14_Undisturbed(t) /\ C14_Undisturbed(u)
        /\ th[t].overlap /\ th[u].overlap
        /\ th[t].outcome = "ok" /\ th[u].outcome = "ok"
        /\ th[t].data # th[u].data
        /\ th[t].start.fitted

\* a turn of the batch loop is taken
C15_Turn == bx.pc = "loop" /\ bx'.pc = "loop" /\ bx'.i = bx.i + 1

\* C15: within one batch_export a day's export touches only that day's own
\* alert file and summary file: the path is a function of the date, distinct
\* days have distinct paths, and whether the export succeeds or fails every
\* file of another day is left as it was.
C15_OwnFilesOnly ==
    [][C15_Turn =>
          LET d == now - bx.i
          IN /\ \A e \in ExportDays : e # d => ExportPath(e) # ExportPath(d)
             /\ \A e \in ExportDays :
                   e # d => /\ alertFiles'[ExportPath(e)] = alertFiles[ExportPath(e)]
                            /\ summaryFiles'[ExportPath(e)] = summaryFiles[ExportPath(e)]]_vars

\* a batch whose first day was exported and whose second day failed with a
\* torn alert file: the first day's files are still there
C15_Witness ==
    /\ bx.pc = "loop" /\ bx.i = 2
    /\ bx.results[1].date # bx.results[2].date
    /\ bx.raised = <<FALSE, TRUE>>
    /\ alertFiles[ExportPath(bx.results[2].date)] = Partial
    /\ alertFiles[ExportPath(bx.results[1].date)].state = "written"
    /\ AlertRows(bx.results[1].date) # <<>>
    /\ summaryFiles[ExportPath(bx.results[1].date)].state = "written"

\* C16: the N results of one batch_export carry the N consecutive days that
\* end at the day the batch started, the i-th (from 0) being that day minus i,
\* pairwise distinct, also when midnight passes while the batch runs.
C16_ConsecutiveDays ==
    eret.op = "batch" =>
        /\ \A j \in DOMAIN eret.results : eret.results[j].date = eret.reference - (j - 1)
        /\ \A j, k \in DOMAIN eret.results :
              j # k => eret.results[j].date # eret.results[k].date

\* C17: a core operation that takes a reading batch leaves the caller's batch
\* as it was: the same columns, the same representation of each column's
\* values (the date column included), the same rows.
C17_CallerBatchUnchanged == [][frame' = frame]_vars

\* C18: process_energy_data on a batch of one or more readings without a date
\* column completes without raising and returns the scored batch and its summary.
C18_NoDateCompletes ==
    (ret.op = "process" /\ Len(ret.data) >= 1 /\ "date" \notin Columns(ret.data)) =>
        /\ ret.outcome = "ok"
        /\ Len(ret.result) = Len(ret.data)

\* C19: exporting the same readings for the same date again, at another time
\* of the clock, writes the same alert rows and the same summary.
C19_ReexportIdentical ==
    [][\A d \in ExportDays :
          /\ (d \in WrittenDays /\ alertFiles'[ExportPath(d)].state = "written") =>
                alertFiles'[ExportPath(d)] = alertFiles[ExportPath(d)]
          /\ (d \in SummaryDays /\ summaryFiles'[ExportPath(d)].state = "written") =>
                summaryFiles'[ExportPath(d)] = summaryFiles[ExportPath(d)]]_vars

\* C20: when all values of the scored batch are equal detect_anomalies raises
\* no error and every reading's z-score is 0.
C20_ConstantBatchZeroZ ==
    (ret.op = "detect" /\ everFit /\ ~LibraryRejects(ret.data, scaler, forest)
       /\ \A i, j \in DOMAIN ret.data : ret.data[i].energyOutput = ret.data[j].energyOutput) =>
        /\ ret.outcome = "ok"
        /\ \A i \in DOMAIN ret.result : ret.result[i].z_score = 0

\* all readings of the batch are equal: its standard deviation is zero
C21_ZeroStd(data) == \A i, j \in DOMAIN data : data[i].energyOutput = data[j].energyOutput
\* all isolation scores of the result are equal: their range is zero
C21_ZeroRange(result) ==
    \A i, j \in DOMAIN result : result[i].isolation_score = result[j].isolation_score

\* C21: in the result of scoring a batch of zero standard deviation every SPC
\* score is 0, and in the result of scoring a batch of zero standard deviation
\* or of zero isolation-score range every anomaly_score is a number between 0
\* and 1, not NaN.
C21_DegenerateBatchFinite ==
    (Returned /\ (C21_ZeroStd(ret.data) \/ C21_ZeroRange(ret.result))) =>
        \A i \in DOMAIN ret.result :
            /\ C21_ZeroStd(ret.data) => ret.result[i].spc_score = 0
            /\ ~IsNaN(ret.result[i].anomaly_score)
            /\ ret.result[i].anomaly_score \in 0..(10 * ScoreScale)

\* the same for the batches whose standard deviation is not zero: the guarded
\* division by the isolation-score range
C21_ZeroRangeFinite ==
    (Returned /\ C21_ZeroRange(ret.result) /\ ~C21_ZeroStd(ret.data)) =>
        \A i \in DOMAIN ret.result :
            /\ ~IsNaN(ret.result[i].anomaly_score)
            /\ ret.result[i].anomaly_score \in 0..(10 * ScoreScale)

\* C22: every alert row written for a day with one or more alerts carries an
\* expected_min that is a number >= 0 and an expected_max that is a number,
\* and for a day of two or more alerts they are max(0, mean - 2 std) and
\* mean + 2 std of that day's energy values.
C22_ExpectedRange ==
    \A d \in WrittenDays :
        \A i \in DOMAIN AlertRows(d) :
            LET v == EnergyOf(DayReadings(d))
                row == AlertRows(d)[i]
            IN /\ ~IsNaN(row.expected_min) /\ row.expected_min >= 0
               /\ ~IsNaN(row.expected_max)
               /\ Len(v) >= 2 =>
                     /\ row.expected_min = Max(0, SeriesMean(v) - 2 * SeriesStd(v))
                     /\ row.expected_max = SeriesMean(v) + 2 * SeriesStd(v)

\* the same for the days of two or more alerts only
C22_ExpectedRangeOfSeveral ==
    \A d \in WrittenDays :
        \A i \in DOMAIN AlertRows(d) :
            LET v == EnergyOf(DayReadings(d))
                row == AlertRows(d)[i]
            IN Len(v) >= 2 =>
                  /\ row.expected_min = Max(0, SeriesMean(v) - 2 * SeriesStd(v))
                  /\ row.expected_max = SeriesMean(v) + 2 * SeriesStd(v)
                  /\ row.expected_min >= 0 /\ ~IsNaN(row.expected_max)

\* C23: the feature matrix of a batch of one or more readings has, after the
\* energy column, the rolling mean and the rolling standard deviation (window
\* 3, at least 1 sample) of each reading, and the scaler is fitted on a
\* matrix with these columns; for a single reading they are the value itself
\* and 0.
C23_RollingColumns ==
    (ret.op = "fit" /\ ret.outcome = "ok") =>
        LET v == EnergyOf(ret.data)
            features == _extract_features(ret.data)
        IN /\ \A i \in DOMAIN features :
                 /\ Len(features[i]) >= 3
                 /\ features[i][2] = RollingMean(v, i)
                 /\ features[i][3] = RollingStd(v, i)
                 /\ Len(v) = 1 => features[i][2] = v[1] * StatScale /\ features[i][3] = 0
           /\ scaler >= 3

\* the same for the batches of seven or more readings only
C23_RollingColumnsOfSeven ==
    (ret.op = "fit" /\ ret.outcome = "ok" /\ Len(ret.data) >= 7) =>
        LET v == EnergyOf(ret.data)
            features == _extract_features(ret.data)
        IN /\ \A i \in DOMAIN features :
                 /\ Len(features[i]) >= 3
                 /\ features[i][2] = RollingMean(v, i)
                 /\ features[i][3] = RollingStd(v, i)
           /\ scaler >= 3

\* C24: a detect_anomalies call on a detector fitted on a batch with the same
\* columns as the batch to score, both of one or more readings, does not fail
\* on the width of the feature matrix.
C24_SameColumnsSameWidth ==
    \A t \in Threads :
        (/\ th[t].op = "detect" /\ th[t].pc = "done" /\ ~th[t].disturbed
         /\ th[t].start.fitted
         /\ Len(TBatches[th[t].data]) >= 1
         /\ Columns(TBatches[th[t].data]) = Columns(TBatches[th[t].start.scalerBy])) =>
            th[t].outcome # "LibraryError"

\* C25: in every result of detect_anomalies the flag of a reading is true
\* exactly when its severity is not Normal.
C25_FlagIffNotNormal ==
    Returned =>
        \A i \in DOMAIN ret.result :
            ret.result[i].anomaly_flag <=> ret.result[i].severity # "Normal"

\* the z-scores and the SPC scores of the result are numbers
C26_FiniteRaw(result) ==
    \A i \in DOMAIN result : ~IsNaN(result[i].z_score) /\ ~IsNaN(result[i].spc_score)

C26_MinIso(result) ==
    SeqMin(AsSeq([i \in DOMAIN result |-> result[i].isolation_score]))

\* C26: in every result of detect_anomalies whose raw scores are numbers, a
\* reading with the smallest isolation score of the batch has anomaly_score
\* >= 0.5, is flagged and has severity Warning or Critical; so the result has
\* at least one flagged reading.
C26_MinIsoFlagged ==
    (Returned /\ C26_FiniteRaw(ret.result)) =>
        /\ \A i \in DOMAIN ret.result :
              ret.result[i].isolation_score = C26_MinIso(ret.result) =>
                  /\ ret.result[i].anomaly_score >= 5 * ScoreScale
                  /\ ret.result[i].anomaly_flag
                  /\ ret.result[i].severity \in {"Warning", "Critical"}
        /\ \E i \in DOMAIN ret.result : ret.result[i].anomaly_flag

\* a batch of four readings, not all equal, given one isolation score: all
\* four flagged
C26_Witness ==
    /\ Returned /\ C26_FiniteRaw(ret.result)
    /\ Len(ret.result) = 4
    /\ C21_ZeroRange(ret.result)
    /\ \A i \in DOMAIN ret.result : ret.result[i].anomaly_flag
    /\ ~C21_ZeroStd(ret.data)

\* C27: in the result of scoring a batch of fewer than 11 readings that are
\* not all equal, every SPC score is 0.
C27_ShortBatchNoSpc ==
    (Returned /\ Len(ret.data) < 11 /\ ~C21_ZeroStd(ret.data)) =>
        \A i \in DOMAIN ret.result : ret.result[i].spc_score = 0

\* the batch of ten readings with the largest deviation ten readings can have
\* (nine equal and one apart) has been scored: no SPC score
C27_Witness ==
    /\ Returned
    /\ EnergyOf(ret.data) = Spike(10)
    /\ \A i \in DOMAIN ret.result : ret.result[i].spc_score = 0

\* eleven readings, ten equal and one apart: the one lies outside the limits
C27_ElevenOutside ==
    (Returned /\ EnergyOf(ret.data) = Spike(11)) => ret.result[11].spc_score > 0

\* C28: a detect_anomalies call that has passed the fitted check and returned
\* scores has transformed with the scaler and scored with the forest of one
\* and the same fit.
C28_ScalerAndForestOfOneFit ==
    \A t \in Threads :
        (th[t].op = "detect" /\ th[t].pc = "done" /\ th[t].outcome = "ok") =>
            th[t].by[1] = th[t].by[2]

\* the same for the calls that no write of a fit call has run across and that
\* did not start between two writes of a fit call
C28_OneFitWhenUndisturbed ==
    \A t \in Threads :
        (/\ C14_Undisturbed(t) /\ th[t].outcome = "ok"
         /\ th[t].start.scalerBy = th[t].start.forestBy) =>
            th[t].by[1] = th[t].by[2]

\* the j-th day of the returned batch was exported by one turn only
C29_OneTurn(j) ==
    \A k \in DOMAIN eret.results : k # j => eret.results[k].date # eret.results[j].date

C29_BothWritten(d) ==
    /\ alertFiles[ExportPath(d)].state = "written"
    /\ summaryFiles[ExportPath(d)].state = "written"

\* C29: when batch_export returns, run on an empty output directory, a day's
\* result is 'success' exactly when the day's alert file and its summary file
\* are both completely written, and a day recorded as 'failed' has no alert
\* file in the directory.
C29_FailedLeavesNoAlertFile ==
    eret.op = "batch" =>
        \A j \in DOMAIN eret.results :
            C29_OneTurn(j) =>
                /\ eret.results[j].status = "success" <=> C29_BothWritten(eret.results[j].date)
                /\ eret.results[j].status = "failed" =>
                      /\ eret.results[j].file_path = NoPath
                      /\ eret.results[j].alert_count = 0
                      /\ alertFiles[ExportPath(eret.results[j].date)].state = "absent"

\* the first part alone
C29_SuccessIffBothWritten ==
    eret.op = "batch" =>
        \A j \in DOMAIN eret.results :
            C29_OneTurn(j) =>
                /\ eret.results[j].status = "success" <=> C29_BothWritten(eret.results[j].date)
                /\ eret.results[j].status = "failed" =>
                      eret.results[j].file_path = NoPath /\ eret.results[j].alert_count = 0

\* C30: in every summary get_anomaly_summary returns the counts of Critical,
\* Warning and Info anomalies add up to total_anomalies, which is at most
\* total_data_points; every flagged reading of the summarised result has one of
\* these three severities.
C30_SummaryCounts ==
    (ret.op = "process" /\ ret.outcome = "ok") =>
        /\ ret.summary.critical_anomalies + ret.summary.warning_anomalies
              + ret.summary.info_anomalies = ret.summary.total_anomalies
        /\ ret.summary.total_anomalies <= ret.summary.total_data_points
        /\ ret.summary.total_data_points = Len(ret.result)
        /\ ret.summary.total_anomalies = Len(Flagged(ret.result))
        /\ \A i \in DOMAIN ret.result :
              ret.result[i].anomaly_flag =>
                  ret.result[i].severity \in {"Critical", "Warning", "Info"}

\* a summary with an Info anomaly, a Warning or Critical anomaly and a reading
\* that is not flagged
C30_Witness ==
    /\ ret.op = "process" /\ ret.outcome = "ok"
    /\ ret.summary.info_anomalies >= 1
    /\ ret.summary.critical_anomalies + ret.summary.warning_anomalies >= 1
    /\ ret.summary.total_anomalies < ret.summary.total_data_points

====
